---- MODULE Spec2Model ----
(***************************************************************************)
(* Traycer Lite: the plan generation pipeline (PlanGenerator, LLMService), *)
(* the generatePlan command (extension.ts) and the sidebar chat session    *)
(* (SidebarProvider).                                                      *)
(*                                                                         *)
(* JSON values are tagged records: [k |-> "null"] stands for null and for  *)
(* a missing key (the code tests both with ?? / || / Array.isArray),       *)
(* [k |-> "num"] for a number, [k |-> "str"] for a non-empty string where  *)
(* a list or object is expected, [k |-> "arr", v |-> <<...>>] for an array *)
(* and [k |-> "obj", ...] for an object.  String-valued fields are strings *)
(* with the sentinel Undef for undefined/null.                             *)
(***************************************************************************)
EXTENDS Integers, Sequences, FiniteSets, TLC

\* ------------------------------------------------------------ bounds ----
MaxPhases == 2
MaxSteps == 2
MaxDefects == 1
MaxFiles == 11
MaxSegs == 3
MaxMsgs == 2
MaxClears == 1
MaxInbox == 1
MaxWords == 3
MaxChatFiles == 1

\* --------------------------------------------------- program constants --
FileCap == 10

\* ------------------------------------------------------- JSON values ----
Undef == "<undefined>"
JNull == [k |-> "null"]
JNum == [k |-> "num"]
JStr == [k |-> "str"]
JArr(s) == [k |-> "arr", v |-> s]
Throw == [k |-> "throw"]

IsArr(x) == x.k = "arr"
IsThrow(x) == x.k = "throw"

\* x ?? d on a string-valued field
Coalesce(x, d) == IF x = Undef THEN d ELSE x
\* x || d on a string-valued field: the empty string is falsy too
OrElse(x, d) == IF x = Undef \/ x = "" THEN d ELSE x
\* x ?? d on a list/object-valued field
CoalesceVal(x, d) == IF x.k = "null" THEN d ELSE x

\* property reads: a read on a number or string yields undefined, a read on
\* null throws (the callers test for null first)
StrField(x, f) == IF x.k = "obj" THEN x[f] ELSE Undef
ValField(x, f) == IF x.k = "obj" THEN x[f] ELSE JNull

Min(a, b) == IF a < b THEN a ELSE b
Max(a, b) == IF a > b THEN a ELSE b
\* Math.ceil(n / 3) for n >= 0
CeilDiv3(n) == (n + 2) \div 3
\* Array.prototype.slice(from, to) with 0-based, end-exclusive indices
Slice(s, from, to) == SubSeq(s, Min(from, Len(s)) + 1, Min(to, Len(s)))

\* timestamps: new Date().toISOString() and what a backend may write
Now == "2026-01-02T00:00:00.000Z"
ValidTs == "2026-01-01T00:00:00.000Z"
InvalidTs == "not-a-date"
PlanModes == {"plan", "phase"}

\* ---------------------------------------------------------- scanning ----
ScannedFileAt(i) ==
    [path |-> "src/f" \o ToString(i) \o ".ts", language |-> "TypeScript", size |-> 100]

\* CodebaseAnalyzer.analyzeWorkspace on a workspace with n files
ProjectContextOf(n) ==
    [rootPath |-> "/ws",
     files |-> [i \in 1..n |-> ScannedFileAt(i)],
     techStack |-> IF n = 0 THEN <<>> ELSE <<"TypeScript">>,
     summary |-> "Located " \o ToString(n) \o " tracked files (avg "
                 \o (IF n = 0 THEN "0" ELSE "100") \o " bytes) across "
                 \o (IF n = 0 THEN "unknown" ELSE "TypeScript") \o "."]

NoContext == [rootPath |-> Undef, files |-> <<>>, techStack |-> <<>>, summary |-> Undef]

\* ---------------------------------------------- fallback synthesis ------
MkStep(id, title, description, references, reasoning, effort) ==
    [k |-> "obj", id |-> id, title |-> title, description |-> description,
     references |-> references, reasoning |-> reasoning, estimatedEffort |-> effort]

MkPhase(id, title, summary, steps) ==
    [k |-> "obj", id |-> id, title |-> title, summary |-> summary, steps |-> JArr(steps)]

MkPlan(task, mode, summary, generatedAt, phases, rawPlan) ==
    [k |-> "obj", task |-> task, mode |-> mode, summary |-> summary,
     generatedAt |-> generatedAt, phases |-> phases, rawPlan |-> rawPlan]

\* the single phase with the validation step ahead of the file steps
createSinglePhase_ValidateFirst(files) ==
    MkPhase("phase-1", "Implementation",
        "Execute the task with focused steps covering analysis, implementation, and validation.",
        <<MkStep("step-testing", "Validate changes",
                 "Run existing tests and linting to ensure the implementation is stable.",
                 JArr(<<"package.json">>),
                 "Guarantees the task outcome meets project quality standards.", Undef)>>
        \o [i \in 1..Len(files) |->
            MkStep("step-" \o ToString(i), "Review " \o files[i].path,
                   "Inspect " \o files[i].path \o " (" \o files[i].language \o ")",
                   JArr(<<files[i].path>>),
                   "Prioritise high-signal files derived from workspace scan.", Undef)])

createSinglePhase(files) ==
    MkPhase("phase-1", "Implementation",
        "Execute the task with focused steps covering analysis, implementation, and validation.",
        [i \in 1..Len(files) |->
            MkStep("step-" \o ToString(i), "Review " \o files[i].path,
                   "Inspect " \o files[i].path \o " (" \o files[i].language \o ")",
                   JArr(<<files[i].path>>),
                   "Prioritise high-signal files derived from workspace scan.", Undef)]
        \o <<MkStep("step-testing", "Validate changes",
                    "Run existing tests and linting to ensure the implementation is stable.",
                    JArr(<<"package.json">>),
                    "Guarantees the task outcome meets project quality standards.", Undef)>>)

analysisFilesOf(files) == Slice(files, 0, Max(2, CeilDiv3(Len(files))))
\* the implementation slice with a third of the files, rounded down
implementationFilesOf_Floor(files) ==
    Slice(files, Len(analysisFilesOf(files)),
          Len(analysisFilesOf(files)) + (Len(files) \div 3))

implementationFilesOf(files) ==
    Slice(files, Len(analysisFilesOf(files)), Len(analysisFilesOf(files)) * 2)
verificationFilesOf(files) ==
    Slice(files, Len(analysisFilesOf(files)) * 2, Len(files))

createPhasedPlan(files) ==
    LET a == analysisFilesOf(files)
        m == implementationFilesOf(files)
        v == verificationFilesOf(files)
    IN <<
        MkPhase("phase-analysis", "Analysis & Discovery",
            "Understand current implementation details and dependencies.",
            [i \in 1..Len(a) |->
                MkStep("analysis-" \o ToString(i), "Investigate " \o a[i].path,
                       "Document the responsibilities of " \o a[i].path,
                       JArr(<<a[i].path>>),
                       "Identify scope before editing to avoid regression.", Undef)]),
        MkPhase("phase-implementation", "Implementation",
            "Apply code changes guided by findings from the analysis phase.",
            [i \in 1..Len(m) |->
                MkStep("implementation-" \o ToString(i), "Update " \o m[i].path,
                       "Perform necessary modifications in " \o m[i].path,
                       JArr(<<m[i].path>>),
                       "Implement solution incrementally across impacted files.", Undef)]
            \o <<MkStep("implementation-cross-cutting", "Share learnings across modules",
                        "Propagate shared updates (types, utilities) discovered during implementation.",
                        JArr(<<>>),
                        "Capture shared follow-up tasks uncovered during implementation.", Undef)>>),
        MkPhase("phase-validation", "Validation & Verification",
            "Ensure the solution meets requirements and quality gates.",
            [i \in 1..Len(v) |->
                MkStep("validation-" \o ToString(i), "Review " \o v[i].path,
                       "Cross-check " \o v[i].path \o " for alignment with the new implementation plan.",
                       JArr(<<v[i].path>>),
                       "Ensure downstream consumers align with the updated behaviour.", Undef)]
            \o <<MkStep("validation-testing", "Execute test & lint suite",
                        "Run automated tests, linting, and manual smoke tests as applicable.",
                        JArr(<<"package.json">>),
                        "Maintain quality gates to catch regressions early.", Undef)>>)
    >>

\* createFallbackPlan with a file cap that depends on the task text
createFallbackPlan_TaskDependent(request, context) ==
    LET files == Slice(context.files, 0, IF request.task = "add login" THEN FileCap ELSE 0)
        phases == IF request.mode = "phase" THEN createPhasedPlan(files)
                  ELSE <<createSinglePhase(files)>>
    IN MkPlan(request.task, request.mode, context.summary, Now, JArr(phases), Undef)

createFallbackPlan(request, context) ==
    LET files == Slice(context.files, 0, FileCap)
        phases == IF request.mode = "phase" THEN createPhasedPlan(files)
                  ELSE <<createSinglePhase(files)>>
    IN MkPlan(request.task, request.mode, context.summary, Now, JArr(phases), Undef)

\* LLMService.heuristicPlan: what LLMService.generatePlan returns when no
\* backend is configured or the request raised
heuristicPlan(request, context) ==
    MkPlan(request.task, request.mode,
           "Heuristic plan for \"" \o request.task \o "\" (provider not configured or LLM failed).",
           Now,
           JArr(<<MkPhase("fallback-phase", "Fallback Plan",
                    "This is a heuristic plan generated without LLM assistance.",
                    <<MkStep("step-1", "Analyze project context",
                             "Review project files under " \o context.rootPath \o ".",
                             JArr(context.techStack),
                             "This plan was generated heuristically to provide minimal guidance.",
                             "Low"),
                      MkStep("step-2", "Refine requirements",
                             "Manually define objectives and constraints for the next planning attempt.",
                             JArr(<<>>), Undef, "Medium")>>)>>),
           "{ note: Fallback plan generated due to missing or failed LLM response, mode: "
               \o request.mode \o " }")

\* ------------------------------------------------ plan normalisation ----
\* crypto.randomUUID(): a fresh identifier, distinct for every place it is
\* drawn at and distinct from every id a backend writes
randomUUID(i, j) == "uuid-" \o ToString(i) \o "-" \o ToString(j)

\* the step callback with an id drawn afresh for every step
ensureStepStructure_FreshId(step, i, j) ==
    IF step.k = "null" THEN Throw
    ELSE MkStep(randomUUID(i, j),
                Coalesce(StrField(step, "title"), "Untitled Step"),
                Coalesce(StrField(step, "description"), ""),
                CoalesceVal(ValField(step, "references"), JArr(<<>>)),
                StrField(step, "reasoning"),
                StrField(step, "estimatedEffort"))

\* the step callback of ensurePhaseStructure; reading step.id of null throws
ensureStepStructure(step, i, j) ==
    IF step.k = "null" THEN Throw
    ELSE MkStep(Coalesce(StrField(step, "id"), randomUUID(i, j)),
                Coalesce(StrField(step, "title"), "Untitled Step"),
                Coalesce(StrField(step, "description"), ""),
                CoalesceVal(ValField(step, "references"), JArr(<<>>)),
                StrField(step, "reasoning"),
                StrField(step, "estimatedEffort"))

\* phase.steps ?? []
stepsOf(phase) == CoalesceVal(ValField(phase, "steps"), JArr(<<>>))

\* ensurePhaseStructure throws a TypeError: the phase is null, its steps are
\* no array (steps.map is not a function) or a step is null
phaseThrows(phase) ==
    \/ phase.k = "null"
    \/ ~IsArr(stepsOf(phase))
    \/ \E j \in 1..Len(stepsOf(phase).v) : stepsOf(phase).v[j].k = "null"

ensurePhaseStructure(phase, i) ==
    IF phaseThrows(phase) THEN Throw
    ELSE [k |-> "obj",
          id |-> Coalesce(StrField(phase, "id"), randomUUID(i, 0)),
          title |-> Coalesce(StrField(phase, "title"), "Untitled Phase"),
          summary |-> Coalesce(StrField(phase, "summary"), ""),
          steps |-> JArr([j \in 1..Len(stepsOf(phase).v) |->
                            ensureStepStructure(stepsOf(phase).v[j], i, j)])]

\* text is a sequence of tokens; [t |-> "j", v |-> x] is the JSON text of x.
\* The JSON text of an object x one of whose strings quotes a snippet between
\* two ``` markers is five tokens: "jh" (the text up to the first marker),
\* the marker, the snippet, the marker, "jt" (the rest of the text).
SyntaxError == [k |-> "syntaxerror"]
IsSnippetJson(text) ==
    /\ Len(text) = 5
    /\ text[1].t = "jh" /\ text[5].t = "jt" /\ text[5].v = text[1].v
    /\ text[2].t = "f" /\ text[4].t = "f"
    /\ text[3].t \in {"p", "j"}
JSONparse(text) ==
    IF Len(text) = 1 /\ text[1].t = "j" THEN text[1].v
    ELSE IF IsSnippetJson(text) THEN text[1].v
    ELSE SyntaxError

tryParsePlan(raw) ==
    LET parsed == JSONparse(raw)
    IN IF parsed.k = "obj" /\ IsArr(parsed.phases) THEN parsed ELSE JNull

\* lines 121-124 without the test for an empty phases list
phasesOrFallback_KeepsEmpty(plan, request, context) ==
    IF plan.phases.k = "null"
    THEN createFallbackPlan(request, context).phases
    ELSE plan.phases

\* plan.phases after lines 121-124
phasesOrFallback(plan, request, context) ==
    IF plan.phases.k = "null" \/ (IsArr(plan.phases) /\ Len(plan.phases.v) = 0)
    THEN createFallbackPlan(request, context).phases
    ELSE plan.phases

\* lines 126-133 throw a TypeError: phases.map is not a function, or
\* ensurePhaseStructure throws on one of the phases
canonicaliseThrows(phases) ==
    \/ ~IsArr(phases)
    \/ \E i \in 1..Len(phases.v) : phaseThrows(phases.v[i])

\* lines 126-133 taking task and summary from the request and the context
canonicalise_IgnoresParsed(plan, phases, request, context) ==
    IF canonicaliseThrows(phases) THEN Throw
    ELSE MkPlan(request.task,
                OrElse(plan.mode, request.mode),
                context.summary,
                OrElse(plan.generatedAt, Now),
                JArr([i \in 1..Len(phases.v) |-> ensurePhaseStructure(phases.v[i], i)]),
                plan.rawPlan)

canonicalise(plan, phases, request, context) ==
    IF canonicaliseThrows(phases) THEN Throw
    ELSE MkPlan(OrElse(plan.task, request.task),
                OrElse(plan.mode, request.mode),
                OrElse(plan.summary, context.summary),
                OrElse(plan.generatedAt, Now),
                JArr([i \in 1..Len(phases.v) |-> ensurePhaseStructure(phases.v[i], i)]),
                plan.rawPlan)

normalisePlanOf(plan, request, context) ==
    IF plan.k = "null" THEN createFallbackPlan(request, context)
    ELSE canonicalise(plan, phasesOrFallback(plan, request, context), request, context)

normalisePlan(response, request, context) ==
    normalisePlanOf(IF response.k = "text" THEN tryParsePlan(response.v) ELSE response,
                    request, context)

RECURSIVE JoinLines(_)
JoinLines(refs) ==
    IF Len(refs) = 0 THEN ""
    ELSE IF Len(refs) = 1 THEN "- " \o refs[1]
    ELSE "- " \o refs[1] \o "\n" \o JoinLines(Tail(refs))

\* toMarkdown throws a TypeError: step.references.map is not a function
\* when references is a non-empty string
markdownThrows(plan) ==
    \E i \in 1..Len(plan.phases.v) :
        \E j \in 1..Len(plan.phases.v[i].steps.v) :
            plan.phases.v[i].steps.v[j].references.k = "str"

stepMarkdown(step) ==
    "### " \o step.title \o "\n" \o step.description \o "\n\n"
    \o (IF IsArr(step.references) /\ Len(step.references.v) > 0
        THEN "References:\n" \o JoinLines(step.references.v) \o "\n\n"
        ELSE "")
    \o (IF step.reasoning # Undef /\ step.reasoning # ""
        THEN "Reasoning: " \o step.reasoning \o "\n\n"
        ELSE "")

RECURSIVE stepsMarkdown(_)
stepsMarkdown(steps) ==
    IF Len(steps) = 0 THEN ""
    ELSE stepMarkdown(Head(steps)) \o stepsMarkdown(Tail(steps))

RECURSIVE phasesMarkdown(_)
phasesMarkdown(phases) ==
    IF Len(phases) = 0 THEN ""
    ELSE "## " \o Head(phases).title \o "\n" \o Head(phases).summary \o "\n\n"
         \o stepsMarkdown(Head(phases).steps.v) \o phasesMarkdown(Tail(phases))

toMarkdown(plan) ==
    "# Implementation Plan: " \o plan.task \o "\n\n"
    \o (IF plan.summary # Undef /\ plan.summary # ""
        THEN "## Overview\n" \o plan.summary \o "\n\n" ELSE "")
    \o phasesMarkdown(plan.phases.v)

\* lines 19-20 of PlanGenerator.generatePlan
withRawPlan(plan) ==
    IF IsThrow(plan) THEN Throw
    ELSE IF plan.rawPlan # Undef THEN plan
    ELSE IF markdownThrows(plan) THEN Throw
    ELSE [plan EXCEPT !.rawPlan = toMarkdown(plan)]

\* PlanGenerator.generatePlan after the backend call returned llmResponse:
\* the plan document, or Throw when a TypeError escapes to the caller
generatePlan(llmResponse, request, context) ==
    withRawPlan(normalisePlan(llmResponse, request, context))

\* ----------------------------------------------- backend responses ------
\* A backend document is a document of the prompted schema (BaseDoc) with
\* at most MaxDefects defects, or a JSON value that is no object.
BaseStep(j) ==
    MkStep("s" \o ToString(j), "Step " \o ToString(j), "do it",
           JArr(<<"src/a.ts">>), "why", "Low")

BasePhase(i, nS) ==
    MkPhase("p" \o ToString(i), "Phase " \o ToString(i), "phase summary",
            [j \in 1..nS |-> BaseStep(j)])

BaseDoc(nP, nS) ==
    MkPlan("backend task", "phase", "backend summary", ValidTs,
           JArr([i \in 1..nP |-> BasePhase(i, nS)]), Undef)

TopEdits == {"task-missing", "task-empty", "mode-missing", "mode-invalid",
             "mode-plan", "summary-missing", "generatedAt-missing", "generatedAt-invalid",
             "rawPlan-empty", "rawPlan-text", "phases-missing", "phases-num"}
PhaseEdits == {"null", "num", "id-missing", "id-dup", "title-missing", "title-empty",
               "summary-missing", "steps-missing", "steps-num"}
StepEdits == {"null", "id-missing", "id-dup", "title-missing", "title-empty",
              "description-missing", "references-missing", "references-num",
              "references-str", "reasoning-missing"}

EditTop(d, e) ==
    CASE e = "task-missing" -> [d EXCEPT !.task = Undef]
      [] e = "task-empty" -> [d EXCEPT !.task = ""]
      [] e = "mode-missing" -> [d EXCEPT !.mode = Undef]
      [] e = "mode-invalid" -> [d EXCEPT !.mode = "banana"]
      [] e = "mode-plan" -> [d EXCEPT !.mode = "plan"]
      [] e = "summary-missing" -> [d EXCEPT !.summary = Undef]
      [] e = "generatedAt-missing" -> [d EXCEPT !.generatedAt = Undef]
      [] e = "generatedAt-invalid" -> [d EXCEPT !.generatedAt = InvalidTs]
      [] e = "rawPlan-empty" -> [d EXCEPT !.rawPlan = ""]
      [] e = "rawPlan-text" -> [d EXCEPT !.rawPlan = "raw plan text"]
      [] e = "phases-missing" -> [d EXCEPT !.phases = JNull]
      [] e = "phases-num" -> [d EXCEPT !.phases = JNum]

EditStep(st, e) ==
    IF st.k # "obj" THEN st
    ELSE CASE e = "null" -> JNull
           [] e = "id-missing" -> [st EXCEPT !.id = Undef]
           [] e = "id-dup" -> [st EXCEPT !.id = "s1"]
           [] e = "title-missing" -> [st EXCEPT !.title = Undef]
           [] e = "title-empty" -> [st EXCEPT !.title = ""]
           [] e = "description-missing" -> [st EXCEPT !.description = Undef]
           [] e = "references-missing" -> [st EXCEPT !.references = JNull]
           [] e = "references-num" -> [st EXCEPT !.references = JNum]
           [] e = "references-str" -> [st EXCEPT !.references = JStr]
           [] e = "reasoning-missing" -> [st EXCEPT !.reasoning = Undef]

EditPhase(ph, e) ==
    IF ph.k # "obj" THEN ph
    ELSE CASE e = "null" -> JNull
           [] e = "num" -> JNum
           [] e = "id-missing" -> [ph EXCEPT !.id = Undef]
           [] e = "id-dup" -> [ph EXCEPT !.id = "p1"]
           [] e = "title-missing" -> [ph EXCEPT !.title = Undef]
           [] e = "title-empty" -> [ph EXCEPT !.title = ""]
           [] e = "summary-missing" -> [ph EXCEPT !.summary = Undef]
           [] e = "steps-missing" -> [ph EXCEPT !.steps = JNull]
           [] e = "steps-num" -> [ph EXCEPT !.steps = JNum]

HasPhase(d, i) == d.k = "obj" /\ IsArr(d.phases) /\ i \in 1..Len(d.phases.v)
HasStep(d, i, j) ==
    /\ HasPhase(d, i)
    /\ d.phases.v[i].k = "obj"
    /\ IsArr(d.phases.v[i].steps)
    /\ j \in 1..Len(d.phases.v[i].steps.v)

\* a defect: <<level, phase index, step index, edit>>
Defects ==
    {<<"top", 0, 0, e>> : e \in TopEdits}
    \cup {<<"phase", i, 0, e>> : i \in 1..MaxPhases, e \in PhaseEdits}
    \cup {<<"step", i, j, e>> : i \in 1..MaxPhases, j \in 1..MaxSteps, e \in StepEdits}

\* d with the defect x, or d itself where x has no place in d
ApplyDefect(d, x) ==
    IF d.k # "obj" THEN d
    ELSE IF x[1] = "top" THEN EditTop(d, x[4])
    ELSE IF x[1] = "phase"
         THEN IF HasPhase(d, x[2])
              THEN [d EXCEPT !.phases.v[x[2]] = EditPhase(@, x[4])] ELSE d
    ELSE IF HasStep(d, x[2], x[3])
         THEN [d EXCEPT !.phases.v[x[2]].steps.v[x[3]] = EditStep(@, x[4])] ELSE d

RECURSIVE Defective(_, _)
Defective(D, n) ==
    IF n = 0 THEN D
    ELSE Defective({ApplyDefect(d, x) : d \in D, x \in Defects} \cup D, n - 1)

WellFormedDocs == {BaseDoc(nP, nS) : nP \in 0..MaxPhases, nS \in 0..MaxSteps}

Docs == Defective(WellFormedDocs, MaxDefects) \cup {JNull, JNum}

\* ------------------------------------------------------------ texts -----
\* Backend text as a sequence of tokens: "fj" is a ```json marker, "f" a
\* ``` marker, "p" prose without braces or backticks, "j" the JSON text of
\* the value v.
Tok(t) == [t |-> t, v |-> JNull]
JTok(x) == [t |-> "j", v |-> x]

RECURSIVE Shapes(_)
Shapes(n) ==
    IF n = 0 THEN {<<>>}
    ELSE LET S == Shapes(n - 1)
         IN S \cup {Append(s, t) : s \in {s \in S : Len(s) = n - 1},
                                   t \in {"fj", "f", "p", "j"}}

Fill(shape, d) ==
    [i \in 1..Len(shape) |-> IF shape[i] = "j" THEN JTok(d) ELSE Tok(shape[i])]

WrapDocs == {BaseDoc(1, 1), BaseDoc(0, 0), JNum}

\* the JSON object {}: none of the keys of a plan
EmptyObject == MkPlan(Undef, Undef, Undef, Undef, JNull, Undef)

\* A plan document whose step description quotes a snippet in a code fence,
\* and its JSON text.  The keys are in the order of the prompted schema, so
\* the text before the snippet holds opening braces only and the text after
\* it closing braces only.
\* (in the description FENCE stands for the three backticks)
Snippets == {"npm test", "{}"}
SnippetDoc(x) ==
    [BaseDoc(1, 1) EXCEPT
        !.phases.v[1].steps.v[1].description = "run FENCE" \o x \o "FENCE"]
SnippetText(x) ==
    <<[t |-> "jh", v |-> SnippetDoc(x)], Tok("f"),
      IF x = "{}" THEN JTok(EmptyObject) ELSE Tok("p"),
      Tok("f"), [t |-> "jt", v |-> SnippetDoc(x)]>>

\* the JSON texts of plan objects, and a text given bare, in a ```json
\* fence and in an untagged fence
PlanTexts == {<<JTok(BaseDoc(1, 1))>>} \cup {SnippetText(x) : x \in Snippets}
Tagged(text) == <<Tok("fj")>> \o text \o <<Tok("f")>>
Untagged(text) == <<Tok("f")>> \o text \o <<Tok("f")>>

Texts ==
    {<<JTok(d)>> : d \in Docs}
    \cup {Fill(s, d) : s \in Shapes(MaxSegs), d \in WrapDocs}
    \cup PlanTexts \cup {Tagged(t) : t \in PlanTexts} \cup {Untagged(t) : t \in PlanTexts}

\* ------------------------------------------------------- LLMService -----
Providers == {"openai", "anthropic", "gemini", "mock", "cohere"}
ApiKeys == {Undef, "key-1"}
ModelNames == {"gemini-2.5-flash", "models/"}
Configs == [provider : Providers, apiKey : ApiKeys, model : ModelNames]

NoClient == [genAI |-> Undef, model |-> Undef, chatSession |-> Undef]

\* modelName.replace(/^models\//, '')
StripModelsPrefix(name) ==
    CASE name = "models/" -> ""
      [] name = "models/gemini-2.5-flash" -> "gemini-2.5-flash"
      [] OTHER -> name

\* LLMService.initializeGemini: the client afterwards and whether it threw
initializeGemini(cfg, client) ==
    IF cfg.apiKey = Undef \/ cfg.apiKey = "" THEN [client |-> client, threw |-> FALSE]
    ELSE LET modelName == StripModelsPrefix(Coalesce(cfg.model, "gemini-1.5-flash"))
         IN IF modelName = ""
            THEN [client |-> [client EXCEPT !.genAI = Undef, !.model = Undef],
                  threw |-> TRUE]
            ELSE [client |-> [genAI |-> cfg.apiKey,
                              model |-> cfg.apiKey \o ":" \o modelName,
                              chatSession |-> cfg.apiKey \o ":" \o modelName],
                  threw |-> FALSE]

\* new LLMService(config, logger)
newLLMService(cfg) ==
    IF cfg.provider = "gemini" THEN initializeGemini(cfg, NoClient)
    ELSE [client |-> NoClient, threw |-> FALSE]

\* LLMService.updateConfig: the client afterwards and whether it threw
updateConfig(cfg, client) ==
    IF cfg.provider = "gemini" THEN initializeGemini(cfg, client)
    ELSE [client |-> NoClient, threw |-> FALSE]

\* what model.generateContent and the reading of its response can yield
ApiFailures == {[k |-> "rejected"], [k |-> "nocandidates"], [k |-> "blocked"],
                [k |-> "textthrows"]}
ApiText(text) == [k |-> "text", v |-> text]
ApiResults == ApiFailures \cup {ApiText(t) : t \in Texts}

HasTok(text, T) == \E i \in 1..Len(text) : text[i].t \in T
IndexOfFirst(text, T) ==
    IF HasTok(text, T)
    THEN CHOOSE i \in 1..Len(text) :
            text[i].t \in T /\ \A j \in 1..(i - 1) : text[j].t \notin T
    ELSE 0
AfterFirst(text, T) == SubSeq(text, IndexOfFirst(text, T) + 1, Len(text))
UpToFirst(text, T) ==
    IF HasTok(text, T) THEN SubSeq(text, 1, IndexOfFirst(text, T) - 1) ELSE text

\* lines 310-317 of LLMService.sendMessage
stripFences(text) ==
    IF HasTok(text, {"fj"}) THEN UpToFirst(AfterFirst(text, {"fj"}), {"fj", "f"})
    ELSE IF HasTok(text, {"f"}) THEN UpToFirst(AfterFirst(text, {"f"}), {"f"})
    ELSE text

\* the tokens whose text holds an opening / a closing brace
HasOpen(tok) == (tok.t = "j" /\ tok.v.k = "obj") \/ tok.t = "jh"
HasClose(tok) == (tok.t = "j" /\ tok.v.k = "obj") \/ tok.t = "jt"
OpenToks(text) == {i \in 1..Len(text) : HasOpen(text[i])}
CloseToks(text) == {i \in 1..Len(text) : HasClose(text[i])}

\* text.match(/\{[\s\S]*\}/): from the first opening brace to the last
\* closing one, <<>> when there is no match
braceMatch(text) ==
    IF OpenToks(text) = {} \/ CloseToks(text) = {} THEN <<>>
    ELSE LET first == CHOOSE i \in OpenToks(text) : \A j \in OpenToks(text) : i <= j
             last == CHOOSE i \in CloseToks(text) : \A j \in CloseToks(text) : i >= j
         IN IF first <= last THEN SubSeq(text, first, last) ELSE <<>>

\* lines 322-342 of LLMService.sendMessage
extractJson(text) ==
    IF JSONparse(text) # SyntaxError THEN ApiText(text)
    ELSE IF braceMatch(text) = <<>> THEN Throw
    ELSE IF JSONparse(braceMatch(text)) # SyntaxError THEN ApiText(braceMatch(text))
    ELSE Throw

ClientReady(client) == client.chatSession # Undef /\ client.model # Undef

\* LLMService.sendMessage from the point where model.generateContent
\* settled with api: the JSON text it returns, or Throw
sendMessageResume(api) ==
    IF api.k # "text" THEN Throw
    ELSE IF Len(api.v) = 0 THEN Throw
    ELSE extractJson(stripFences(api.v))

\* LLMService.sendMessage
sendMessage(client, api) ==
    IF ~ClientReady(client) THEN Throw ELSE sendMessageResume(api)

\* LLMService.sendConversationalMessage from the point where
\* model.generateContent settled with api: the text, or Throw
sendConversationalResume(api) ==
    IF api.k # "text" THEN Throw
    ELSE IF Len(api.v) = 0 THEN Throw
    ELSE api

\* invokeOpenAI / invokeAnthropic: JSON.stringify({ message: "... not yet implemented" })
PlaceholderDoc == MkPlan(Undef, Undef, Undef, Undef, JNull, Undef)
invokePlaceholder == ApiText(<<JTok(PlaceholderDoc)>>)

KeyMissing(cfg) == cfg.apiKey = Undef \/ cfg.apiKey = ""

\* LLMService.generatePlan reaches model.generateContent
CallsBackend(cfg, client) ==
    ~KeyMissing(cfg) /\ cfg.provider = "gemini" /\ ClientReady(client)

\* the 'gemini' case of LLMService.generatePlan once the request settled
geminiGeneratePlan(api, request, context) ==
    LET r == sendMessageResume(api)
    IN IF IsThrow(r) THEN heuristicPlan(request, context) ELSE r

\* LLMService.generatePlan: a PlanResult object or a JSON text
llmGeneratePlan(cfg, client, api, request, context) ==
    IF KeyMissing(cfg) \/ cfg.provider = "mock" THEN heuristicPlan(request, context)
    ELSE IF cfg.provider \in {"openai", "anthropic"} THEN invokePlaceholder
    ELSE IF cfg.provider = "gemini"
         THEN IF ~ClientReady(client) THEN heuristicPlan(request, context)
              ELSE geminiGeneratePlan(api, request, context)
    ELSE heuristicPlan(request, context)

\* how LLMService.generatePlan came to its result
BackendVia(cfg, client, api) ==
    IF KeyMissing(cfg) \/ cfg.provider = "mock" THEN "unconfigured"
    ELSE IF cfg.provider \in {"openai", "anthropic"} THEN "placeholder"
    ELSE IF cfg.provider = "gemini"
         THEN IF ~ClientReady(client) \/ IsThrow(sendMessageResume(api)) THEN "raised"
              ELSE "text"
    ELSE "unsupported"

\* ------------------------------------------------------------ state -----
VARIABLES
    activation,    \* whether activate() has run, and how it ended
    commands,      \* the command ids registered with vscode.commands
    config,        \* LLMService.config
    client,        \* LLMService.genAI / model / _chatSession
    workspace,     \* vscode.workspace: a folder is open, and its file count
    cmdPc,         \* position of the traycer-lite.generatePlan handler
    cmdRequest,    \* its PlanRequest
    cmdContext,    \* its contextData
    cmdApi,        \* what model.generateContent settled with, if it was called
    cmdVia,        \* how LLMService.generatePlan came to its result
    cmdResponse,   \* llmResponse in PlanGenerator.generatePlan
    cmdPlan,       \* plan in the command handler, or Throw
    clipboard,     \* vscode.env.clipboard
    notices,       \* information messages shown
    inbox,         \* messages the webview posted, not yet received
    handlers,      \* the handleChatMessage invocations, by message number
    sent,          \* number of chat messages the user sent
    clears,        \* number of times the user cleared the chat
    history,       \* SidebarProvider._conversationHistory
    currentPlan,   \* SidebarProvider._currentPlan
    projectContext, \* SidebarProvider._projectContext
    uiPlan,        \* currentPlan of the webview script
    sendDisabled   \* sendBtn.disabled of the webview script

cmdVars == <<cmdPc, cmdRequest, cmdContext, cmdApi, cmdVia, cmdResponse, cmdPlan, clipboard, notices>>
chatVars == <<inbox, handlers, sent, clears, history, currentPlan, projectContext, uiPlan,
              sendDisabled>>
vars == <<activation, commands, config, client, workspace, cmdPc, cmdRequest, cmdContext, cmdApi, cmdVia,
          cmdResponse, cmdPlan, clipboard, notices, inbox, handlers, sent,
          clears, history, currentPlan, projectContext, uiPlan, sendDisabled>>

NoRequest == [task |-> Undef, mode |-> Undef]
\* a workspace without a folder has no files
Workspaces ==
    {[open |-> FALSE, nfiles |-> 0]} \cup {[open |-> TRUE, nfiles |-> n] : n \in 0..MaxFiles}

\* the commands activate() registers
RegisteredCommands == {"traycer-lite.generatePlan", "traycer-lite.startChat"}

\* activate(): the services are constructed; a throwing LLMService
\* constructor aborts activation, so no handler exists then
ActivatedConfigs == {c \in Configs : ~newLLMService(c).threw}

\* no handleChatMessage invocation for this message number
NoHandler ==
    [pc |-> "none", words |-> {}, mode |-> Undef, route |-> "none",
     result |-> "none", cause |-> "none"]

Init ==
    /\ activation = "active"
    /\ commands = RegisteredCommands
    /\ config \in ActivatedConfigs
    /\ client = newLLMService(config).client
    /\ workspace \in Workspaces
    /\ cmdPc = "idle"
    /\ cmdRequest = NoRequest
    /\ cmdContext = NoContext
    /\ cmdApi = JNull
    /\ cmdVia = "none"
    /\ cmdResponse = JNull
    /\ cmdPlan = JNull
    /\ clipboard = Undef
    /\ notices = <<>>
    /\ inbox = <<>>
    /\ handlers = [m \in 1..MaxMsgs |-> NoHandler]
    /\ sent = 0
    /\ clears = 0
    /\ history = <<>>
    /\ currentPlan = JNull
    /\ projectContext = NoContext
    /\ uiPlan = JNull
    /\ sendDisabled = FALSE

\* ----------------------------------- the traycer-lite.generatePlan command
Truthy(str) == str # Undef /\ str # ""

\* lines 130-148 of the handler once planGenerator.generatePlan settled
CmdDeliver(via, resp) ==
    /\ cmdVia' = via
    /\ cmdResponse' = resp
    /\ cmdPlan' = generatePlan(resp, cmdRequest, cmdContext')
    /\ IF IsThrow(cmdPlan') THEN cmdPc' = "failed" /\ notices' = notices
       ELSE IF Truthy(cmdPlan'.rawPlan) THEN cmdPc' = "awaitClipboard" /\ notices' = notices
       ELSE /\ cmdPc' = "done"
            /\ notices' = Append(notices, "Plan copied to clipboard.")

\* the user runs the command and answers (or cancels) the two prompts;
\* analyzeWorkspace throws when no folder is open
CmdInvoke(task, mode) ==
    /\ cmdPc = "idle"
    /\ IF ~Truthy(task) \/ mode = Undef
       THEN cmdPc' = "cancelled" /\ cmdRequest' = cmdRequest
       ELSE /\ cmdRequest' = [task |-> task, mode |-> mode]
            /\ cmdPc' = IF workspace.open THEN "awaitScan" ELSE "failed"
    /\ UNCHANGED <<activation, commands, config, client, workspace, cmdContext, cmdApi, cmdVia, cmdResponse,
                   cmdPlan, clipboard, notices, chatVars>>

\* scanner.scanWorkspace settled: the context is built and
\* PlanGenerator.generatePlan runs up to the backend request
CmdScanDone ==
    /\ cmdPc = "awaitScan"
    /\ cmdContext' = ProjectContextOf(workspace.nfiles)
    /\ IF CallsBackend(config, client)
       THEN /\ cmdPc' = "awaitLLM"
            /\ UNCHANGED <<cmdVia, cmdResponse, cmdPlan, notices>>
       ELSE CmdDeliver(BackendVia(config, client, JNull),
                       llmGeneratePlan(config, client, JNull, cmdRequest, cmdContext'))
    /\ UNCHANGED <<activation, commands, config, client, workspace, cmdRequest, cmdApi, clipboard, chatVars>>

\* model.generateContent settled with some api result
CmdLLMDone ==
    /\ cmdPc = "awaitLLM"
    /\ \E api \in ApiResults :
        /\ cmdApi' = api
        /\ cmdContext' = cmdContext
        /\ CmdDeliver(IF IsThrow(sendMessageResume(api)) THEN "raised" ELSE "text",
                      geminiGeneratePlan(api, cmdRequest, cmdContext))
    /\ UNCHANGED <<activation, commands, config, client, workspace, cmdRequest, clipboard, chatVars>>

\* clipboard.writeText settled; the user answers confirmPlanDisplay
CmdClipboardDone(openView) ==
    /\ cmdPc = "awaitClipboard"
    /\ clipboard' = cmdPlan.rawPlan
    /\ cmdPc' = IF openView THEN "viewing" ELSE "done"
    /\ notices' = IF openView THEN notices
                  ELSE Append(notices, "Plan copied to clipboard.")
    /\ UNCHANGED <<activation, commands, config, client, workspace, cmdRequest, cmdContext, cmdApi, cmdVia,
                   cmdResponse, cmdPlan, chatVars>>

CmdTasks == {Undef, "add login"}

NextCmd ==
    \/ \E task \in CmdTasks, mode \in PlanModes \cup {Undef} : CmdInvoke(task, mode)
    \/ CmdScanDone
    \/ CmdLLMDone
    \/ \E openView \in BOOLEAN : CmdClipboardDone(openView)

SpecCmd == Init /\ [][NextCmd]_vars

\* ================================================ the sidebar chat session
\* A chat message is the set of the words of Vocabulary it contains; the
\* regular expressions of generateResponse and generateNewPlan test for
\* whole words.
Vocabulary == {"update", "plan", "create", "detailed", "quick"}
Messages == {w \in SUBSET Vocabulary : w # {} /\ Cardinality(w) <= MaxWords}

\* The backend responses of a chat session: the failures, the empty text,
\* prose, and a document that is well-formed, has no phases, or has one of
\* the defects that the chat handlers treat differently; bare, wrapped in
\* prose or fenced.
ChatDefects == {<<"top", 0, 0, "phases-missing">>, <<"phase", 1, 0, "null">>,
                <<"phase", 1, 0, "steps-missing">>, <<"phase", 1, 0, "id-missing">>,
                <<"phase", 1, 0, "title-missing">>}
ChatDocs ==
    {BaseDoc(1, 1), BaseDoc(0, 0), JNull, JNum}
    \cup {ApplyDefect(BaseDoc(1, 1), x) : x \in ChatDefects}
ChatApiResults ==
    ApiFailures
    \cup {ApiText(<<>>), ApiText(<<Tok("p")>>),
          ApiText(<<Tok("p"), JTok(BaseDoc(1, 1)), Tok("p")>>),
          ApiText(<<Tok("fj"), JTok(BaseDoc(1, 1)), Tok("f")>>)}
    \cup {ApiText(<<JTok(d)>>) : d \in ChatDocs}
ChatWorkspaces == {w \in Workspaces : w.nfiles <= MaxChatFiles}
\* modeSelect.value: one of the two modes, or empty when nothing is selected
SelectorValues == PlanModes \cup {""}

EditVerbs == {"modify", "change", "update", "edit", "revise", "refine", "adjust",
              "improve", "add", "remove", "reduce", "increase", "expand", "simplify"}
PlanNouns == {"plan", "phase", "step", "detail"}
CreateVerbs == {"create", "generate", "make", "new", "build", "implement", "develop"}
PhaseKeywords == {"detailed", "multi-phase", "multi phase", "multiphase", "phases"}
PlanKeywords == {"quick", "simple", "fast"}

Matches(words, class) == words \cap class # {}

\* the text of the m-th message the user sends
TaskText(m) == "message " \o ToString(m)

\* !this._currentPlan is false for every value but undefined and null
PlanTruthy(plan) == plan.k # "null"

isModification(words) == Matches(words, EditVerbs) /\ Matches(words, PlanNouns)
isNewPlan(words, plan) == Matches(words, CreateVerbs) \/ ~PlanTruthy(plan)

\* the branches of generateResponse with the test for a new plan first
generateResponseRoute_NewFirst(words, plan) ==
    IF isNewPlan(words, plan) THEN "new"
    ELSE IF isModification(words) /\ PlanTruthy(plan) THEN "modify"
    ELSE "general"

\* the branch generateResponse takes
generateResponseRoute(words, plan) ==
    IF isModification(words) /\ PlanTruthy(plan) THEN "modify"
    ELSE IF isNewPlan(words, plan) THEN "new"
    ELSE "general"

\* the mode with the quick/simple/fast keywords tested first
newPlanMode_PlanKeywordsFirst(words, preferredMode) ==
    IF Matches(words, PlanKeywords) THEN "plan"
    ELSE IF Matches(words, PhaseKeywords) THEN "phase"
    ELSE preferredMode

\* the mode generateNewPlan requests
newPlanMode(words, preferredMode) ==
    IF Matches(words, PhaseKeywords) THEN "phase"
    ELSE IF Matches(words, PlanKeywords) THEN "plan"
    ELSE preferredMode

\* messages of the errors handleChatMessage catches
WorkspaceError == "Workspace not found. Open a folder or workspace before generating a plan."
NotInitialized == "Gemini chat session not initialized. Check API key and provider configuration."
SendFailed == "Failed to generate content with Gemini"
ConversationFailed == "Failed to generate conversational response with Gemini"
TypeErrorMessage == "TypeError"

\* entries of _conversationHistory; plan tells whether a plan is attached
UserEntry(m) == [role |-> "user", content |-> TaskText(m), plan |-> FALSE]
ErrorEntry(message) ==
    [role |-> "assistant", content |-> "Error: " \o message, plan |-> FALSE]
ReplyEntry(content, plan) ==
    [role |-> "assistant", content |-> content, plan |-> PlanTruthy(plan)]
NewPlanReply == "I've created an implementation plan for your request."
ModifyReply == "I've updated the plan based on your feedback."
GeneralReply == "conversational response"

\* what ended the backend request: the request was rejected or its response
\* blocked, the text was empty, or no JSON could be recovered from it
apiCause(api) ==
    IF api.k # "text" THEN "rejected"
    ELSE IF Len(api.v) = 0 THEN "empty"
    ELSE IF IsThrow(sendMessageResume(api)) THEN "unparseable"
    ELSE "none"

\* How far generateResponse got: it awaits the backend (await), or settled
\* with a reply or a thrown error; slot is the value of _currentPlan then.
Awaiting(route, mode, slot) ==
    [await |-> TRUE, route |-> route, mode |-> mode, error |-> FALSE,
     content |-> Undef, plan |-> JNull, slot |-> slot, cause |-> "none"]
Failed(route, message, cause, slot) ==
    [await |-> FALSE, route |-> route, mode |-> Undef, error |-> TRUE,
     content |-> message, plan |-> JNull, slot |-> slot, cause |-> cause]
Replied(route, content, plan, slot) ==
    [await |-> FALSE, route |-> route, mode |-> Undef, error |-> FALSE,
     content |-> content, plan |-> plan, slot |-> slot, cause |-> "none"]

\* modifyPlan lines 272-275: building the prompt reads phases.map and
\* p.title of the stored plan
modifyPromptThrows(plan) ==
    \/ plan.k # "obj"
    \/ ~IsArr(plan.phases)
    \/ \E i \in 1..Len(plan.phases.v) : plan.phases.v[i].k = "null"

\* modifyPlan lines 292-296: the response text reads phases.length,
\* p.title and p.steps.length of the parsed document
modifyTextThrows(updatedPlan) ==
    \/ updatedPlan.k # "obj"
    \/ ~IsArr(updatedPlan.phases)
    \/ \E i \in 1..Len(updatedPlan.phases.v) :
          \/ updatedPlan.phases.v[i].k # "obj"
          \/ updatedPlan.phases.v[i].steps.k = "null"

\* generateNewPlan keeping a plan the slot already holds
generateNewPlanResume_FirstWins(llmResponse, request, context, slot) ==
    IF IsThrow(generatePlan(llmResponse, request, context))
    THEN Failed("new", TypeErrorMessage, "unusable", slot)
    ELSE Replied("new", NewPlanReply, generatePlan(llmResponse, request, context),
                 IF PlanTruthy(slot) THEN slot
                 ELSE generatePlan(llmResponse, request, context))

\* generateNewPlan from the point where PlanGenerator.generatePlan got the
\* backend's llmResponse
generateNewPlanResume(llmResponse, request, context, slot) ==
    IF IsThrow(generatePlan(llmResponse, request, context))
    THEN Failed("new", TypeErrorMessage, "unusable", slot)
    ELSE Replied("new", NewPlanReply, generatePlan(llmResponse, request, context),
                 generatePlan(llmResponse, request, context))

\* modifyPlan, were a failed backend call answered with a synthesized plan
modifyPlanResume_Fallback(api, m, slot) ==
    IF IsThrow(sendMessageResume(api))
    THEN Replied("modify", ModifyReply,
                 createFallbackPlan([task |-> TaskText(m), mode |-> "phase"], NoContext),
                 createFallbackPlan([task |-> TaskText(m), mode |-> "phase"], NoContext))
    ELSE IF modifyTextThrows(JSONparse(sendMessageResume(api).v))
    THEN Failed("modify", TypeErrorMessage, "unusable", JSONparse(sendMessageResume(api).v))
    ELSE Replied("modify", ModifyReply, JSONparse(sendMessageResume(api).v),
                 JSONparse(sendMessageResume(api).v))

\* modifyPlan from the point where model.generateContent settled with api
\* (lines 287-298); the slot is assigned before the response text is built
modifyPlanResume(api, m, slot) ==
    IF IsThrow(sendMessageResume(api))
    THEN Failed("modify", SendFailed, apiCause(api), slot)
    ELSE IF modifyTextThrows(JSONparse(sendMessageResume(api).v))
    THEN Failed("modify", TypeErrorMessage, "unusable", JSONparse(sendMessageResume(api).v))
    ELSE Replied("modify", ModifyReply, JSONparse(sendMessageResume(api).v),
                 JSONparse(sendMessageResume(api).v))

\* handleGeneralQuery, were the answer to empty the current-plan slot
handleGeneralQueryResume_DropsPlan(api, slot) ==
    IF IsThrow(sendConversationalResume(api))
    THEN Failed("general", ConversationFailed, apiCause(api), slot)
    ELSE Replied("general", GeneralReply, JNull, JNull)

\* handleGeneralQuery from the point where model.generateContent settled
handleGeneralQueryResume(api, slot) ==
    IF IsThrow(sendConversationalResume(api))
    THEN Failed("general", ConversationFailed, apiCause(api), slot)
    ELSE Replied("general", GeneralReply, JNull, slot)

\* generateResponse up to its first request to the backend
generateResponse(m, words, preferredMode, slot, cfg, cl, context) ==
    IF generateResponseRoute(words, slot) = "modify"
    THEN IF modifyPromptThrows(slot)
         THEN Failed("modify", TypeErrorMessage, "unusable", slot)
         ELSE IF ~ClientReady(cl)
         THEN Failed("modify", NotInitialized, "unavailable", slot)
         ELSE Awaiting("modify", Undef, slot)
    ELSE IF generateResponseRoute(words, slot) = "new"
    THEN IF CallsBackend(cfg, cl)
         THEN Awaiting("new", newPlanMode(words, preferredMode), slot)
         ELSE generateNewPlanResume(
                  llmGeneratePlan(cfg, cl, JNull,
                      [task |-> TaskText(m), mode |-> newPlanMode(words, preferredMode)],
                      context),
                  [task |-> TaskText(m), mode |-> newPlanMode(words, preferredMode)],
                  context, slot)
    ELSE IF ~ClientReady(cl)
         THEN Failed("general", NotInitialized, "unavailable", slot)
         ELSE Awaiting("general", Undef, slot)

\* generateResponse resumed when model.generateContent settled with api
generateResponseResume(m, h, api, slot, context) ==
    IF h.route = "modify" THEN modifyPlanResume(api, m, slot)
    ELSE IF h.route = "new"
    THEN generateNewPlanResume(
             geminiGeneratePlan(api, [task |-> TaskText(m), mode |-> h.mode], context),
             [task |-> TaskText(m), mode |-> h.mode], context, slot)
    ELSE handleGeneralQueryResume(api, slot)

\* renderPlan of the webview script throws a TypeError: a phase is null
\* (phase.title), a step is null (step.title) or references is a non-empty
\* string (references.map is not a function)
renderPlanThrows(plan) ==
    /\ plan.k = "obj"
    /\ IsArr(plan.phases)
    /\ \E i \in 1..Len(plan.phases.v) :
          \/ plan.phases.v[i].k = "null"
          \/ /\ plan.phases.v[i].k = "obj"
             /\ IsArr(plan.phases.v[i].steps)
             /\ \E j \in 1..Len(plan.phases.v[i].steps.v) :
                   \/ plan.phases.v[i].steps.v[j].k = "null"
                   \/ /\ plan.phases.v[i].steps.v[j].k = "obj"
                      /\ plan.phases.v[i].steps.v[j].references.k = "str"

\* handleChatMessage lines 175-211 once generateResponse got as far as
\* response, with hist the history and disabled the state of the send
\* button at that point; cause records what, if anything, went wrong on the
\* way.  The webview handles the 'addMessage' it is posted: it stores and
\* renders an attached plan and then enables the send button.
Respond(m, response, hist, cause, disabled) ==
    \E r \in {response} :
        /\ currentPlan' = r.slot
        /\ sendDisabled' = IF r.await \/ (PlanTruthy(r.plan) /\ renderPlanThrows(r.plan))
                           THEN disabled ELSE FALSE
        /\ IF r.await
           THEN /\ handlers' = [handlers EXCEPT ![m] =
                       [pc |-> "llm", words |-> {}, mode |-> r.mode, route |-> r.route,
                        result |-> "none", cause |-> "none"]]
                /\ history' = hist
                /\ uiPlan' = uiPlan
           ELSE /\ handlers' = [handlers EXCEPT ![m] =
                       [pc |-> "done", words |-> {}, mode |-> Undef, route |-> r.route,
                        result |-> IF r.error THEN "error" ELSE "reply",
                        cause |-> IF cause # "none" THEN cause ELSE r.cause]]
                /\ history' = Append(hist, IF r.error THEN ErrorEntry(r.content)
                                           ELSE ReplyEntry(r.content, r.plan))
                /\ uiPlan' = IF PlanTruthy(r.plan) THEN r.plan ELSE uiPlan

\* the webview's sendMessage(), from the send button or the Enter key: the
\* trimmed text is not empty
UserSendFrom(messages, modes) ==
    /\ activation = "active"
    /\ sent < MaxMsgs
    /\ Len(inbox) < MaxInbox
    /\ \E words \in messages, mode \in modes :
          inbox' = Append(inbox, [type |-> "sendMessage", m |-> sent + 1,
                                  words |-> words, mode |-> mode])
    /\ sent' = sent + 1
    /\ sendDisabled' = TRUE
    /\ UNCHANGED <<activation, commands, config, client, workspace, cmdVars, handlers, clears, history,
                   currentPlan, projectContext, uiPlan>>

UserSend == UserSendFrom(Messages, SelectorValues)

\* the clear button, confirmed
UserClear ==
    /\ activation = "active"
    /\ clears < MaxClears
    /\ Len(inbox) < MaxInbox
    /\ inbox' = Append(inbox, [type |-> "clearChat", m |-> 0,
                               words |-> {}, mode |-> Undef])
    /\ clears' = clears + 1
    /\ UNCHANGED <<activation, commands, config, client, workspace, cmdVars, handlers, sent, history,
                   currentPlan, projectContext, uiPlan, sendDisabled>>

\* onDidReceiveMessage 'sendMessage': handleChatMessage up to its first
\* request to the scanner or the backend (the webview posts no blank
\* message, so the return of lines 139-141 is never taken).  The webview's
\* addMessageToChat for the echoed user message enables the send button.
ReceiveSendMessage ==
    /\ Len(inbox) > 0
    /\ Head(inbox).type = "sendMessage"
    /\ inbox' = Tail(inbox)
    /\ IF projectContext # NoContext
       THEN /\ projectContext' = projectContext
            /\ Respond(Head(inbox).m,
                       generateResponse(Head(inbox).m, Head(inbox).words,
                                        OrElse(Head(inbox).mode, "phase"),
                                        currentPlan, config, client, projectContext),
                       Append(history, UserEntry(Head(inbox).m)), "none", FALSE)
       ELSE IF ~workspace.open
       THEN /\ projectContext' = projectContext
            /\ Respond(Head(inbox).m,
                       Failed("none", WorkspaceError, "workspace", currentPlan),
                       Append(history, UserEntry(Head(inbox).m)), "none", FALSE)
       ELSE /\ handlers' = [handlers EXCEPT ![Head(inbox).m] =
                   [pc |-> "scan", words |-> Head(inbox).words,
                    mode |-> OrElse(Head(inbox).mode, "phase"), route |-> "none",
                    result |-> "none", cause |-> "none"]]
            /\ history' = Append(history, UserEntry(Head(inbox).m))
            /\ sendDisabled' = FALSE
            /\ UNCHANGED <<currentPlan, projectContext, uiPlan>>
    /\ UNCHANGED <<activation, commands, config, client, workspace, cmdVars, sent, clears>>

\* onDidReceiveMessage 'clearChat', and the webview's clearChat()
ReceiveClearChat ==
    /\ Len(inbox) > 0
    /\ Head(inbox).type = "clearChat"
    /\ inbox' = Tail(inbox)
    /\ history' = <<>>
    /\ currentPlan' = JNull
    /\ projectContext' = NoContext
    /\ uiPlan' = JNull
    /\ UNCHANGED <<activation, commands, config, client, workspace, cmdVars, handlers, sent, clears, sendDisabled>>

\* analyzeWorkspace settled for invocation m
ScanDone(m) ==
    /\ handlers[m].pc = "scan"
    /\ projectContext' = ProjectContextOf(workspace.nfiles)
    /\ Respond(m, generateResponse(m, handlers[m].words, handlers[m].mode,
                                   currentPlan, config, client, projectContext'),
               history, "none", sendDisabled)
    /\ UNCHANGED <<activation, commands, config, client, workspace, cmdVars, inbox, sent, clears>>

\* model.generateContent settled for invocation m
LLMDoneWith(m, results) ==
    /\ handlers[m].pc = "llm"
    /\ \E api \in results :
          Respond(m, generateResponseResume(m, handlers[m], api, currentPlan,
                                            ProjectContextOf(workspace.nfiles)),
                  history, apiCause(api), sendDisabled)
    /\ UNCHANGED <<activation, commands, config, client, workspace, cmdVars, inbox, sent, clears,
                   projectContext>>

LLMDone(m) == LLMDoneWith(m, ChatApiResults)

Next ==
    \/ UserSend
    \/ UserClear
    \/ ReceiveSendMessage
    \/ ReceiveClearChat
    \/ \E m \in 1..MaxMsgs : ScanDone(m)
    \/ \E m \in 1..MaxMsgs : LLMDone(m)

InitChat ==
    /\ activation = "active"
    /\ commands = RegisteredCommands
    /\ config \in ActivatedConfigs
    /\ client = newLLMService(config).client
    /\ workspace \in ChatWorkspaces
    /\ cmdPc = "idle"
    /\ cmdRequest = NoRequest
    /\ cmdContext = NoContext
    /\ cmdApi = JNull
    /\ cmdVia = "none"
    /\ cmdResponse = JNull
    /\ cmdPlan = JNull
    /\ clipboard = Undef
    /\ notices = <<>>
    /\ inbox = <<>>
    /\ handlers = [m \in 1..MaxMsgs |-> NoHandler]
    /\ sent = 0
    /\ clears = 0
    /\ history = <<>>
    /\ currentPlan = JNull
    /\ projectContext = NoContext
    /\ uiPlan = JNull
    /\ sendDisabled = FALSE

Spec == InitChat /\ [][Next]_vars

\* ------------------------------------- activation and configuration ----
\* activate(): the services are constructed from the settings and the
\* commands are registered; an LLMService constructor that throws ends
\* activate() before anything is registered
Activate ==
    /\ activation = "pending"
    /\ \E service \in {newLLMService(config)} :
          /\ client' = service.client
          /\ activation' = IF service.threw THEN "failed" ELSE "active"
          /\ commands' = IF service.threw THEN commands
                         ELSE commands \cup RegisteredCommands
    /\ UNCHANGED <<config, workspace, cmdVars, chatVars>>

\* configListener: the user changed a setting of the extension to cfg
ConfigChange(cfg) ==
    /\ activation = "active"
    /\ config' = cfg
    /\ client' = updateConfig(cfg, client).client
    /\ UNCHANGED <<activation, commands, workspace, cmdVars, chatVars>>

\* The chat of a session in which the settings change: a message that asks
\* for a plan, one that asks for a change of the plan and one that is
\* neither; a backend that fails, answers with prose or answers with a plan.
SessionMessages == {{"create"}, {"update", "plan"}, {"quick"}}
SessionApiResults ==
    {[k |-> "rejected"], ApiText(<<Tok("p")>>), ApiText(<<JTok(BaseDoc(1, 1))>>)}

NextSession ==
    \/ Activate
    \/ \E cfg \in Configs : ConfigChange(cfg)
    \/ UserSendFrom(SessionMessages, {"phase"})
    \/ UserClear
    \/ ReceiveSendMessage
    \/ ReceiveClearChat
    \/ \E m \in 1..MaxMsgs : ScanDone(m)
    \/ \E m \in 1..MaxMsgs : LLMDoneWith(m, SessionApiResults)

\* the extension host before activate() has run, with the user's settings
InitSession ==
    /\ activation = "pending"
    /\ commands = {}
    /\ config \in Configs
    /\ client = NoClient
    /\ workspace \in ChatWorkspaces
    /\ cmdPc = "idle"
    /\ cmdRequest = NoRequest
    /\ cmdContext = NoContext
    /\ cmdApi = JNull
    /\ cmdVia = "none"
    /\ cmdResponse = JNull
    /\ cmdPlan = JNull
    /\ clipboard = Undef
    /\ notices = <<>>
    /\ inbox = <<>>
    /\ handlers = [m \in 1..MaxMsgs |-> NoHandler]
    /\ sent = 0
    /\ clears = 0
    /\ history = <<>>
    /\ currentPlan = JNull
    /\ projectContext = NoContext
    /\ uiPlan = JNull
    /\ sendDisabled = FALSE

SpecSession == InitSession /\ [][NextSession]_vars

\* ============================ properties of PlanGenerator.generatePlan ===
\* the backend document the handler's llmResponse parses to (JNull if none)
cmdDoc == IF cmdResponse.k = "text" THEN tryParsePlan(cmdResponse.v) ELSE JNull
cmdReturned == cmdPlan.k = "obj"
PhasesOf(plan) == plan.phases.v
StepsOf(phase) == phase.steps.v
PhaseTitles(plan) == [i \in 1..Len(PhasesOf(plan)) |-> PhasesOf(plan)[i].title]

\* C1: PlanGenerator.generatePlan is total: whatever the backend outcome, it
\* returns a plan document and never throws to its caller.
C1_GeneratePlanNeverThrows == ~IsThrow(cmdPlan)

C3_FailureYieldsFallbackSynthesis ==
    (cmdReturned /\ cmdVia \in {"unconfigured", "unsupported", "raised"}) =>
        PhaseTitles(cmdPlan) =
            IF cmdRequest.mode = "phase"
            THEN <<"Analysis & Discovery", "Implementation", "Validation & Verification">>
            ELSE <<"Implementation">>

\* C8: in every returned plan document no id is null, phase ids are pairwise
\* distinct and step ids are pairwise distinct within their phase.
C8_IdsPresentAndUnique ==
    cmdReturned =>
        /\ \A i \in 1..Len(PhasesOf(cmdPlan)) :
            /\ PhasesOf(cmdPlan)[i].id # Undef
            /\ \A j \in 1..Len(StepsOf(PhasesOf(cmdPlan)[i])) :
                /\ StepsOf(PhasesOf(cmdPlan)[i])[j].id # Undef
                /\ \A l \in 1..Len(StepsOf(PhasesOf(cmdPlan)[i])) :
                    l # j => StepsOf(PhasesOf(cmdPlan)[i])[l].id
                             # StepsOf(PhasesOf(cmdPlan)[i])[j].id
        /\ \A i, l \in 1..Len(PhasesOf(cmdPlan)) :
            i # l => PhasesOf(cmdPlan)[i].id # PhasesOf(cmdPlan)[l].id

\* C9: in every returned plan document every phase title and every step title
\* is a non-empty string.
C9_TitlesNonEmpty ==
    cmdReturned =>
        \A i \in 1..Len(PhasesOf(cmdPlan)) :
            /\ Truthy(PhasesOf(cmdPlan)[i].title)
            /\ \A j \in 1..Len(StepsOf(PhasesOf(cmdPlan)[i])) :
                Truthy(StepsOf(PhasesOf(cmdPlan)[i])[j].title)

\* C10: the mode of every returned plan document is one of the two valid
\* modes; a backend mode that is missing or no valid mode is replaced by the
\* request's mode.
C10_ModeIsValid ==
    cmdReturned =>
        /\ cmdPlan.mode \in PlanModes
        /\ (cmdDoc.k = "obj" /\ cmdDoc.mode \notin PlanModes)
               => cmdPlan.mode = cmdRequest.mode

\* what Date.parse accepts as an ISO-8601 timestamp
IsTimestamp(str) == str \in {Now, ValidTs}

\* C11: the generatedAt of every returned plan document is a valid
\* timestamp; where the backend document has none, or one that is no valid
\* timestamp, the returned plan carries the normalisation time.
C11_GeneratedAtIsValid ==
    cmdReturned =>
        /\ IsTimestamp(cmdPlan.generatedAt)
        /\ (cmdDoc.k = "obj" /\ ~IsTimestamp(cmdDoc.generatedAt))
               => cmdPlan.generatedAt = Now

\* C12: every returned plan carries a non-empty rawPlan, and whenever the
\* command has reported 'Plan copied to clipboard.' the clipboard holds the
\* plan's text.
C12_RawPlanPresentAndCopied ==
    /\ cmdReturned => Truthy(cmdPlan.rawPlan)
    /\ (\E i \in 1..Len(notices) : notices[i] = "Plan copied to clipboard.")
           => (Truthy(clipboard) /\ clipboard = cmdPlan.rawPlan)

\* a plan document in which every phase has id, title, summary and a steps
\* list and every step has id, title, description and a references list
WellFormedPlan(doc) ==
    /\ doc.k = "obj"
    /\ IsArr(doc.phases)
    /\ Len(doc.phases.v) >= 1
    /\ \A i \in 1..Len(doc.phases.v) :
        LET phase == doc.phases.v[i]
        IN /\ phase.k = "obj"
           /\ phase.id # Undef /\ phase.title # Undef /\ phase.summary # Undef
           /\ IsArr(phase.steps)
           /\ \A j \in 1..Len(phase.steps.v) :
               LET step == phase.steps.v[j]
               IN /\ step.k = "obj"
                  /\ step.id # Undef /\ step.title # Undef
                  /\ step.description # Undef
                  /\ IsArr(step.references)

\* C13: repair is idempotent: a well-formed plan document returned as
\* backend JSON is returned with phases of identical content and order, every
\* id kept.
C13_RepairIsIdempotent ==
    (cmdVia = "text" /\ WellFormedPlan(cmdDoc)) =>
        (cmdReturned /\ cmdPlan.phases = cmdDoc.phases)

\* a well-formed backend document of two phases with two steps each came back
C13_Witness ==
    /\ cmdVia = "text"
    /\ WellFormedPlan(cmdDoc)
    /\ cmdReturned
    /\ Len(cmdDoc.phases.v) = MaxPhases
    /\ \A i \in 1..MaxPhases : Len(cmdDoc.phases.v[i].steps.v) = MaxSteps

\* the returned plan has the phases of PlanGenerator.createFallbackPlan: the
\* backend text parsed to no plan, or to a plan with an empty phases list
cmdSynthesised ==
    /\ cmdReturned
    /\ cmdVia \in {"text", "placeholder"}
    /\ (cmdDoc.k = "null" \/ Len(cmdDoc.phases.v) = 0)
\* the returned plan is LLMService.heuristicPlan
cmdHeuristic == cmdReturned /\ cmdVia \in {"unconfigured", "unsupported", "raised"}

\* titles, step counts and step references of a plan, phase by phase
PhaseShape(plan) ==
    [i \in 1..Len(PhasesOf(plan)) |->
        [title |-> PhasesOf(plan)[i].title,
         references |-> [j \in 1..Len(StepsOf(PhasesOf(plan)[i])) |->
                            StepsOf(PhasesOf(plan)[i])[j].references]]]

\* a second request in the same mode, with another task
OtherRequest == [task |-> "another task", mode |-> cmdRequest.mode]

\* C14: fallback synthesis is deterministic: the phase titles, step counts
\* and step references of a fallback plan are those of any other fallback
\* synthesis for the same project context and mode, whatever the task.
C14_FallbackIsDeterministic ==
    /\ cmdSynthesised =>
           PhaseShape(cmdPlan) = PhaseShape(createFallbackPlan(OtherRequest, cmdContext))
    /\ cmdHeuristic =>
           PhaseShape(cmdPlan) = PhaseShape(heuristicPlan(OtherRequest, cmdContext))

\* a multi-phase fallback was synthesised over a workspace of several files
C14_Witness ==
    /\ cmdSynthesised
    /\ cmdDoc.k = "null"
    /\ cmdRequest.mode = "phase"
    /\ Len(cmdContext.files) >= 3

\* task, mode, summary and phases of a returned plan
PlanContent(plan) ==
    IF plan.k = "obj"
    THEN [task |-> plan.task, mode |-> plan.mode, summary |-> plan.summary,
          phases |-> plan.phases]
    ELSE plan

\* what the command returns for this request and context when the backend
\* answers with text
cmdPlanFor(text) ==
    generatePlan(geminiGeneratePlan(ApiText(text), cmdRequest, cmdContext),
                 cmdRequest, cmdContext)

\* C15: fence stripping is transparent: the JSON text of a plan object in a
\* json-tagged fence or in an untagged fence gives a plan of the same task,
\* mode, summary and phases as the same text given bare; a json-tagged fence
\* is tried before an untagged one, and the text between the first opening
\* marker and the first marker after it is used.
C15_FenceStrippingIsTransparent ==
    /\ \A t \in PlanTexts :
        cmdApi \in {ApiText(Tagged(t)), ApiText(Untagged(t))}
            => PlanContent(cmdPlan) = PlanContent(cmdPlanFor(t))
    /\ cmdApi \in {ApiText(<<Tok("f"), Tok("fj"), JTok(BaseDoc(1, 1))>>),
                   ApiText(<<Tok("fj"), JTok(BaseDoc(1, 1)), Tok("f")>>),
                   ApiText(<<Tok("fj"), JTok(BaseDoc(1, 1)), Tok("fj")>>)}
           => cmdResponse = ApiText(<<JTok(BaseDoc(1, 1))>>)

\* the backend text parsed to a plan object whose phases list is empty
cmdEmptyPhases == cmdVia = "text" /\ cmdDoc.k = "obj" /\ Len(cmdDoc.phases.v) = 0

\* C16: for backend JSON whose phases is an empty array the returned plan
\* has exactly the phases of the fallback for the request and context, at
\* least one, and keeps the parsed task and summary where they are present.
C16_EmptyPhasesGetFallbackPhases ==
    cmdEmptyPhases =>
        /\ cmdReturned
        /\ cmdPlan.phases = createFallbackPlan(cmdRequest, cmdContext).phases
        /\ Len(PhasesOf(cmdPlan)) >= 1
        /\ Truthy(cmdDoc.task) => cmdPlan.task = cmdDoc.task
        /\ Truthy(cmdDoc.summary) => cmdPlan.summary = cmdDoc.summary

\* a document with task and summary but no phases came back in multi-phase
\* mode over a workspace with files
C16_Witness ==
    /\ cmdEmptyPhases
    /\ cmdReturned
    /\ Truthy(cmdDoc.task) /\ Truthy(cmdDoc.summary)
    /\ cmdRequest.mode = "phase"
    /\ Len(cmdContext.files) >= 1

\* the files a phase of the multi-phase fallback has a step for, in step
\* order: the single reference of each of its first n steps
StepFiles(phase, n) == [j \in 1..n |-> StepsOf(phase)[j].references.v[1]]

\* the first min(n, 10) scanned files, in scan order
cappedPaths ==
    [i \in 1..Min(Len(cmdContext.files), FileCap) |-> cmdContext.files[i].path]

\* C17: in the multi-phase fallback the files of the analysis steps, of the
\* implementation steps and of the validation steps, one after the other, are
\* exactly the first min(n, 10) scanned files in scan order: the three slices
\* are contiguous, do not overlap and cover each file once.
C17_PartitionCoversCappedFiles ==
    (cmdSynthesised /\ cmdRequest.mode = "phase") =>
        /\ Len(PhasesOf(cmdPlan)) = 3
        /\ StepFiles(PhasesOf(cmdPlan)[1], Len(StepsOf(PhasesOf(cmdPlan)[1])))
           \o StepFiles(PhasesOf(cmdPlan)[2], Len(StepsOf(PhasesOf(cmdPlan)[2])) - 1)
           \o StepFiles(PhasesOf(cmdPlan)[3], Len(StepsOf(PhasesOf(cmdPlan)[3])) - 1)
           = cappedPaths

\* a multi-phase fallback over a workspace with more files than the cap
C17_Witness ==
    /\ cmdSynthesised
    /\ cmdRequest.mode = "phase"
    /\ Len(cmdContext.files) > FileCap
    /\ Len(StepsOf(PhasesOf(cmdPlan)[3])) > 1

\* ======================================= properties of the chat session ===
ErrorMessages == {WorkspaceError, NotInitialized, SendFailed, ConversationFailed,
                  TypeErrorMessage}
IsErrorEntry(e) == \E message \in ErrorMessages : e = ErrorEntry(message)

\* invocation m settles in this step
Finishes(m) == handlers[m].pc # "done" /\ handlers'[m].pc = "done"
\* the history as it is when the step's error or reply is pushed
HistoryBefore(m) ==
    IF handlers[m].pc = "none" THEN Append(history, UserEntry(m)) ELSE history

\* the form PlanGenerator.normalisePlan and generatePlan leave a plan in
NormalForm(plan) ==
    /\ plan.k = "obj"
    /\ plan.task # Undef /\ plan.mode # Undef /\ plan.summary # Undef
    /\ plan.generatedAt # Undef /\ plan.rawPlan # Undef
    /\ IsArr(plan.phases)
    /\ Len(plan.phases.v) >= 1
    /\ \A i \in 1..Len(plan.phases.v) :
        /\ plan.phases.v[i].k = "obj"
        /\ plan.phases.v[i].id # Undef
        /\ plan.phases.v[i].title # Undef
        /\ plan.phases.v[i].summary # Undef
        /\ IsArr(plan.phases.v[i].steps)
        /\ \A j \in 1..Len(plan.phases.v[i].steps.v) :
            /\ plan.phases.v[i].steps.v[j].k = "obj"
            /\ plan.phases.v[i].steps.v[j].id # Undef
            /\ plan.phases.v[i].steps.v[j].title # Undef
            /\ plan.phases.v[i].steps.v[j].references.k # "null"

\* C4: the plan a modification stores in the current-plan slot and sends to
\* the UI has passed through the normalisation of a freshly generated plan.
C4_ModificationIsNormalised ==
    [][\A m \in 1..MaxMsgs :
          (Finishes(m) /\ handlers'[m].route = "modify" /\ handlers'[m].result = "reply")
              => (NormalForm(currentPlan') /\ uiPlan' = currentPlan')]_vars

\* C5: when the handling of a chat message ends in a user-visible error,
\* exactly one assistant error message is appended, the earlier history
\* entries are kept and the current-plan slot keeps its value.
C5_ErrorLeavesPlanUntouched ==
    [][\A m \in 1..MaxMsgs :
          (Finishes(m) /\ handlers'[m].result = "error")
              => /\ Len(history') = Len(HistoryBefore(m)) + 1
                 /\ SubSeq(history', 1, Len(HistoryBefore(m))) = HistoryBefore(m)
                 /\ IsErrorEntry(history'[Len(history')])
                 /\ currentPlan' = currentPlan]_vars

\* C6: when the backend call of a modification fails, or no JSON can be
\* recovered from its output, the handler ends with a chat error message
\* that carries no plan, and no plan is synthesized: the current-plan slot
\* and the plan the UI shows stay as they were.
C6_ModificationFailureIsShown ==
    [][\A m \in 1..MaxMsgs :
          (Finishes(m) /\ handlers'[m].route = "modify"
              /\ handlers'[m].cause \in {"unavailable", "rejected", "empty", "unparseable"})
              => /\ handlers'[m].result = "error"
                 /\ history' = Append(HistoryBefore(m), history'[Len(history')])
                 /\ IsErrorEntry(history'[Len(history')])
                 /\ ~history'[Len(history')].plan
                 /\ currentPlan' = currentPlan
                 /\ uiPlan' = uiPlan]_vars

\* a modification whose backend call failed has ended with an error message
C6_Witness ==
    \E m \in 1..MaxMsgs :
        /\ handlers[m].pc = "done"
        /\ handlers[m].route = "modify"
        /\ handlers[m].cause \in {"rejected", "empty", "unparseable"}
        /\ handlers[m].result = "error"
        /\ IsErrorEntry(history[Len(history)])

\* C7: a chat message ends in a visible error only when the workspace is
\* unavailable or, on a modification, the backend output cannot be parsed;
\* every other condition on any route is absorbed.
C7_OnlyWorkspaceAndParseErrorsShow ==
    \A m \in 1..MaxMsgs :
        handlers[m].result = "error"
            => \/ handlers[m].cause = "workspace"
               \/ handlers[m].route = "modify" /\ handlers[m].cause = "unparseable"

\* ------------------------------------------------------------ routing ---
\* invocation m reaches generateResponse in this step
Routes(m) == handlers[m].route = "none" /\ handlers'[m].route # "none"
\* the words of the message invocation m is routing
RoutedWords(m) == IF handlers[m].pc = "scan" THEN handlers[m].words ELSE Head(inbox).words

\* C18: the route of a chat message is 'modify' exactly when the message
\* matches an edit verb and a plan noun and a current plan exists; otherwise
\* 'new' exactly when it matches a creation verb or no current plan exists;
\* otherwise 'general'.  Without a current plan the route is 'new'.
C18_RoutingIsClassifier ==
    [][\A m \in 1..MaxMsgs :
        Routes(m) =>
            LET edit == Matches(RoutedWords(m), EditVerbs)
                noun == Matches(RoutedWords(m), PlanNouns)
                create == Matches(RoutedWords(m), CreateVerbs)
                exists == PlanTruthy(currentPlan)
            IN /\ handlers'[m].route = "modify" <=> (edit /\ noun /\ exists)
               /\ handlers'[m].route = "new" <=>
                      (~(edit /\ noun /\ exists) /\ (create \/ ~exists))
               /\ handlers'[m].route = "general" <=>
                      (~(edit /\ noun /\ exists) /\ ~(create \/ ~exists))
               /\ ~exists => handlers'[m].route = "new"]_vars

\* the first message was routed to a new plan and answered with one, the
\* second was routed to modification and awaits the backend
C18_Witness ==
    /\ handlers[1].route = "new" /\ handlers[1].result = "reply"
    /\ handlers[2].route = "modify" /\ handlers[2].pc = "llm"
    /\ PlanTruthy(currentPlan)

\* ----------------------------------------------------------- scanning ---
\* C19: within a session the workspace scan completes at most once and its
\* result is reused: a scan is started and a scan completes only while no
\* project context is cached; a request that finds no workspace ends with an
\* error at once, without scanning.
C19_ScanAtMostOncePerSession ==
    [][\A m \in 1..MaxMsgs :
        /\ (handlers[m].pc = "scan" /\ handlers'[m].pc # "scan")
               => projectContext = NoContext
        /\ (handlers[m].pc = "none" /\ handlers'[m].pc = "scan")
               => projectContext = NoContext
        /\ (handlers[m].pc = "none" /\ handlers'[m].pc # "none"
                /\ projectContext = NoContext /\ ~workspace.open)
               => (handlers'[m].pc = "done" /\ handlers'[m].result = "error")]_vars

\* -------------------------------------------------------- send button ---
\* the request of message m is outstanding: posted, and no response or error
\* message for it has been posted back
Outstanding(m) ==
    \/ \E i \in 1..Len(inbox) : inbox[i].type = "sendMessage" /\ inbox[i].m = m
    \/ handlers[m].pc \in {"scan", "llm"}

\* C20: the send button is disabled for as long as a request is outstanding,
\* and at most one request is outstanding at a time.
C20_SendDisabledWhileOutstanding ==
    /\ (\E m \in 1..MaxMsgs : Outstanding(m)) => sendDisabled
    /\ Cardinality({m \in 1..MaxMsgs : Outstanding(m)}) <= 1

\* ------------------------------------------------ overlapping requests ---
\* invocation m ends in this step with a reply that carries a plan
WritesPlan(m) ==
    /\ handlers[m].pc # "done" /\ handlers'[m].pc = "done"
    /\ handlers'[m].result = "reply"
    /\ handlers'[m].route \in {"new", "modify"}

\* C21: overlapping requests are not serialised: a step of one request
\* leaves every other request as it is, in flight or not, and the request
\* that completes with a plan leaves that plan in the current-plan slot, so
\* after two requests the slot holds the plan of the later writer.
C21_LastWriteWins ==
    [][\A m \in 1..MaxMsgs :
        /\ handlers'[m] # handlers[m]
               => \A o \in 1..MaxMsgs \ {m} : handlers'[o] = handlers[o]
        /\ WritesPlan(m) => (PlanTruthy(currentPlan') /\ currentPlan' = uiPlan')]_vars

\* the second request was answered with a new plan while the first, routed
\* to a new plan as well, still awaits the backend
C21_Witness ==
    /\ handlers[1].pc = "llm" /\ handlers[1].route = "new"
    /\ handlers[2].pc = "done" /\ handlers[2].route = "new"
    /\ handlers[2].result = "reply"
    /\ PlanTruthy(currentPlan)

\* ================================ properties of the fallback builders ===
\* the number of scanned files that reach a fallback builder
cappedCount == Min(Len(cmdContext.files), FileCap)

\* C24: the single-phase fallback is one phase titled 'Implementation' with
\* one step per file among the first min(n, 10) scanned files, in scan order
\* and each referring to exactly that file, then one last step 'Validate
\* changes': min(n, 10) + 1 steps.
C24_SinglePhaseFallbackShape ==
    (cmdSynthesised /\ cmdRequest.mode = "plan") =>
        /\ Len(PhasesOf(cmdPlan)) = 1
        /\ PhasesOf(cmdPlan)[1].title = "Implementation"
        /\ Len(StepsOf(PhasesOf(cmdPlan)[1])) = cappedCount + 1
        /\ \A j \in 1..cappedCount :
              StepsOf(PhasesOf(cmdPlan)[1])[j].references
                  = JArr(<<cmdContext.files[j].path>>)
        /\ StepsOf(PhasesOf(cmdPlan)[1])[cappedCount + 1].title = "Validate changes"

\* a single-phase fallback over a workspace with more files than the cap
C24_Witness ==
    /\ cmdSynthesised
    /\ cmdRequest.mode = "plan"
    /\ Len(cmdContext.files) > FileCap
    /\ Len(StepsOf(PhasesOf(cmdPlan)[1])) = FileCap + 1

\* C25: in the multi-phase fallback over n capped files the Analysis phase
\* has max(2, ceil(n/3)) file steps and no other, the Implementation phase
\* as many file steps plus the cross-cutting step, and the Validation phase
\* one step per remaining file plus the test-and-lint step.
C25_SliceSizes ==
    (cmdSynthesised /\ cmdRequest.mode = "phase") =>
        /\ Len(PhasesOf(cmdPlan)) = 3
        /\ Len(StepsOf(PhasesOf(cmdPlan)[1])) = Max(2, CeilDiv3(cappedCount))
        /\ Len(StepsOf(PhasesOf(cmdPlan)[2])) = Max(2, CeilDiv3(cappedCount)) + 1
        /\ Len(StepsOf(PhasesOf(cmdPlan)[3]))
               = Max(0, cappedCount - 2 * Max(2, CeilDiv3(cappedCount))) + 1

\* C26: every step of a fallback-synthesised plan, whether the backend was
\* unavailable, raised an error or answered with unusable content, carries
\* a non-empty reasoning string.
C26_FallbackStepsCarryReasoning ==
    (cmdSynthesised \/ cmdHeuristic) =>
        \A i \in 1..Len(PhasesOf(cmdPlan)) :
            \A j \in 1..Len(StepsOf(PhasesOf(cmdPlan)[i])) :
                StepsOf(PhasesOf(cmdPlan)[i])[j].reasoning \notin {Undef, ""}

\* C27: when the normalizer fills an empty phases array, the mode of the
\* returned document agrees with the shape of the phases: one phase in the
\* single-phase mode, three in the multi-phase mode.
C27_ModeAgreesWithFilledPhases ==
    (cmdEmptyPhases /\ cmdReturned) =>
        /\ cmdPlan.mode = "plan" => Len(PhasesOf(cmdPlan)) = 1
        /\ cmdPlan.mode = "phase" => Len(PhasesOf(cmdPlan)) = 3


\* =================== properties of a session with configuration changes ===
\* this step is the provider's handling of a 'clearChat' message
ClearStep ==
    /\ Len(inbox) > 0
    /\ Head(inbox).type = "clearChat"
    /\ inbox' = Tail(inbox)

\* C22: a chat-clear empties the history and sets the current plan and the
\* cached project context to undefined; no other step (a message, an error,
\* a general query, a configuration change) takes the cached context away,
\* and no step of a general query changes the current plan.
C22_OnlyClearInvalidatesContext ==
    [][/\ ClearStep => /\ history' = <<>>
                       /\ currentPlan' = JNull
                       /\ projectContext' = NoContext
       /\ (projectContext # NoContext /\ projectContext' # projectContext) => ClearStep
       /\ \A m \in 1..MaxMsgs :
             (handlers'[m] # handlers[m] /\ handlers'[m].route = "general")
                 => currentPlan' = currentPlan]_vars

\* a general query was answered with the plan and the cached context still
\* there, and the provider setting has been changed away from gemini since
C22_Witness ==
    /\ handlers[2].route = "general"
    /\ handlers[2].result = "reply"
    /\ PlanTruthy(currentPlan)
    /\ projectContext # NoContext
    /\ config.provider = "mock"


\* C23: once activate() has run, the command 'traycer-lite.generatePlan' is
\* registered, whatever provider, API key and model name the settings hold.
C23_GeneratePlanIsRegistered ==
    activation # "pending" => "traycer-lite.generatePlan" \in commands

\* C29: after any sequence of configuration changes the service holds a
\* Gemini model and chat session exactly when the latest configuration
\* selects gemini with an API key, and the session it holds was created
\* from that configuration.
C29_ClientFollowsLatestConfig ==
    activation = "active" =>
        /\ ClientReady(client) <=> (config.provider = "gemini" /\ ~KeyMissing(config))
        /\ ClientReady(client) => client = initializeGemini(config, NoClient).client


\* ================================ further properties of the chat session ===
\* C28: once a chat-clear has been processed and the user has sent nothing
\* since, the history stays empty and the current plan stays undefined in
\* every step that is not the user sending a message, also when a request
\* was still awaiting the scan or the backend at the clear.
C28_ClearedStaysCleared ==
    [][(/\ clears > 0
        /\ inbox = <<>>
        /\ history = <<>>
        /\ currentPlan = JNull
        /\ sent' = sent)
           => (history' = <<>> /\ currentPlan' = JNull)]_vars

\* the value of the mode selector that came with the message invocation m is
\* routing
RoutedSelector(m) == IF handlers[m].pc = "scan" THEN handlers[m].mode ELSE Head(inbox).mode

\* C30: the mode of a fresh plan request is multi-phase when the message has
\* a detailed/multi-phase/phases keyword, otherwise single-phase when it has
\* a quick/simple/fast keyword, otherwise the selector's value, and
\* multi-phase when the selector supplied none.
C30_ModeDecisionOrder ==
    [][\A m \in 1..MaxMsgs :
        (Routes(m) /\ handlers'[m].route = "new") =>
            LET phaseWord == RoutedWords(m) \cap {"detailed", "multi-phase", "phases"} # {}
                planWord == RoutedWords(m) \cap {"quick", "simple", "fast"} # {}
                decided == IF phaseWord THEN "phase"
                           ELSE IF planWord THEN "plan"
                           ELSE IF RoutedSelector(m) \in {Undef, ""} THEN "phase"
                           ELSE RoutedSelector(m)
            IN /\ handlers'[m].pc = "llm" => handlers'[m].mode = decided
               /\ handlers'[m].result = "reply" => currentPlan'.mode = decided]_vars

\* two fresh plan requests await the backend, one decided single-phase and
\* one decided multi-phase
C30_Witness ==
    /\ handlers[1].pc = "llm" /\ handlers[1].route = "new" /\ handlers[1].mode = "plan"
    /\ handlers[2].pc = "llm" /\ handlers[2].route = "new" /\ handlers[2].mode = "phase"

====
